---- MODULE Spec2Model ----
(***************************************************************************)
(* Model of the model-rag repository: the LangGraph workflow               *)
(* retrieve -> grade_documents -> generate (with conditional retry), the   *)
(* FastAPI handler POST /generate that invokes it, and the ingestion       *)
(* script that builds vector stores and retrievers from CSV sources.       *)
(***************************************************************************)
EXTENDS Integers, Sequences, FiniteSets, TLC

\* ---------------------------------------------------------------- bounds
MaxDocs == 2        \* longest passage sequence a retrieval returns
MaxSources == 3     \* most CSV sources in an ingestion configuration
MaxIndexes == 2     \* most collections a retrieval is set up over
MaxPerIndex == 2    \* longest result one index returns to a query
MaxRows == 2        \* most rows of a CSV file
MaxConcDocs == 1    \* concurrent requests: longest retrieval result

\* ------------------------------------------------- values of the inputs
Questions == {"q1", "q2"}
Passages == {"p1", "p2"}
Answers == {"A1", "A2"}
\* labels the relevance grader may return in score.binary_score, each a
\* string spelled as the sequence of its characters
Labels == {<<"y", "e", "s">>, <<"Y", "e", "S">>, <<"N", "o">>}
Collections == {"c1", "c2", "c3"}
CsvFiles == <<"a.csv", "b.csv", "c.csv", "d.csv">>
\* outcome of processing one CSV source / of initializing one retriever
SourceOutcomes == {"ok", "csv_error", "store_error"}
RetrieverOutcomes == {"ok", "init_error"}

\* ------------------------------------------------------ graph constants
RETRIEVE == "retrieve"
GRADE_DOCUMENTS == "grade_documents"
GENERATE == "generate"
END == "__end__"
\* position of a run whose stage raised or that used up its steps: the
\* exception left graph_app.invoke
FAILED == "failed"
IDLE == "idle"
\* graph_app.invoke is called without a config: LangGraph's default limit on
\* the steps of one run, and the error it raises when the limit is reached
RECURSION_LIMIT == 25
RECURSION_ERROR == "GraphRecursionError"
\* the generator calls a run can make: RETRIEVE and FILTER take two steps
MaxGenerations == RECURSION_LIMIT - 2

VARIABLES
    pc,            \* position of the workflow run
    state,         \* the GraphState mapping threaded through the nodes
    response,      \* what POST /generate sent to the caller
    exception,     \* the exception that escaped the workflow ("" if none)
    retrieved,     \* history: what query_all_retrievers returned
    trace,         \* history: the calls RETRIEVE and FILTER made, in order
    pass,          \* history: the calls of the latest pass through GENERATE
    generations,   \* history: the passes through GENERATE so far
    rejections,    \* history: the negative judgments on generations so far
    csv_config,    \* ingestion: the configured sources, in dict order
    ipc,           \* ingestion: position of the ingestion script
    vectorstores,  \* ingestion: result of setup_vectorstores
    retrievers,    \* ingestion: result of setup_retrievers
    outcomes,      \* history: outcome of each source / retriever
    log,           \* ingestion: error records logged
    visited,       \* history: the nodes the run has executed, in order
    registry,      \* the keys of the retrievers mapping, in insertion order
    indexResults,  \* history: what each index returned to the last query
    df,            \* csv: the data frame read from the CSV file
    docs,          \* csv: the documents handed to the vector store
    runs           \* concurrent requests: the run of each request

vars == <<pc, state, response, exception, retrieved, trace,
          pass, generations, rejections,
          csv_config, ipc, vectorstores, retrievers, outcomes, log,
          visited, registry, indexResults, df, docs, runs>>
genVars == <<pass, generations, rejections>>
wfVars == <<pc, state, response, exception, retrieved, trace, visited, genVars>>
ingVars == <<csv_config, ipc, vectorstores, retrievers, outcomes, log>>
csvVars == <<df, docs>>

\* sequences over S of length at most n
RECURSIVE SeqsUpTo(_, _)
SeqsUpTo(S, n) ==
    IF n = 0 THEN {<<>>}
    ELSE LET shorter == SeqsUpTo(S, n - 1)
         IN shorter \cup {Append(s, x) : s \in {t \in shorter : Len(t) = n - 1}, x \in S}

\* ------------------------------------------------------ workflow state
\* variant: the returned mapping replaces the state
Merge_replace(st, update) ==
    update

\* LangGraph applies a node's returned mapping to the state key by key
Merge(st, update) ==
    [k \in (DOMAIN st) \cup (DOMAIN update) |->
        IF k \in DOMAIN update THEN update[k] ELSE st[k]]

NoState == [k \in {} |-> ""]
NoResponse == [status |-> 0, body |-> ""]

Init ==
    /\ pc = IDLE
    /\ state = NoState
    /\ response = NoResponse
    /\ exception = ""
    /\ retrieved = <<>>
    /\ trace = <<>>
    /\ pass = <<>>
    /\ generations = 0
    /\ rejections = 0
    /\ csv_config = <<>>
    /\ ipc = "off"
    /\ vectorstores = NoState
    /\ retrievers = NoState
    /\ outcomes = NoState
    /\ log = <<>>
    /\ visited = <<>>
    /\ registry = <<>>
    /\ indexResults = <<>>
    /\ df = <<>>
    /\ docs = <<>>
    /\ runs = NoState

\* ------------------------------------------------------- history trace
Call(name, arg, out) == [call |-> name, arg |-> arg, out |-> out]
RAISE == "raise"
BoolStr(b) == IF b THEN "true" ELSE "false"

\* variant: the label is compared as it is
Lower_case_sensitive(label) ==
    label

\* the lower-case form of each upper-case letter
LowerOfUpper ==
    ("A" :> "a") @@ ("B" :> "b") @@ ("C" :> "c") @@ ("D" :> "d") @@ ("E" :> "e") @@
    ("F" :> "f") @@ ("G" :> "g") @@ ("H" :> "h") @@ ("I" :> "i") @@ ("J" :> "j") @@
    ("K" :> "k") @@ ("L" :> "l") @@ ("M" :> "m") @@ ("N" :> "n") @@ ("O" :> "o") @@
    ("P" :> "p") @@ ("Q" :> "q") @@ ("R" :> "r") @@ ("S" :> "s") @@ ("T" :> "t") @@
    ("U" :> "u") @@ ("V" :> "v") @@ ("W" :> "w") @@ ("X" :> "x") @@ ("Y" :> "y") @@
    ("Z" :> "z")
LowerChar(c) == IF c \in DOMAIN LowerOfUpper THEN LowerOfUpper[c] ELSE c

\* str.lower(): every cased letter of the string folded, the rest kept
Lower(label) ==
    [i \in DOMAIN label |-> LowerChar(label[i])]

\* the string a sequence of characters spells
RECURSIVE Text(_)
Text(chars) == IF chars = <<>> THEN "" ELSE chars[1] \o Text(Tail(chars))

\* ------------------------------------------------------------ the nodes
\* s without the later occurrences of its elements
RECURSIVE Dedup(_)
Dedup(s) ==
    IF s = <<>> THEN <<>>
    ELSE LET front == Dedup(SubSeq(s, 1, Len(s) - 1))
             x == s[Len(s)]
         IN IF \E i \in DOMAIN front : front[i] = x THEN front ELSE Append(front, x)

\* variant: a passage already in the list is not added again
retrieve_dedup(st, documents) ==
    [documents |-> Dedup(documents), question |-> st.question]

\* retrieve: the update it returns, given what query_all_retrievers returned
retrieve(st, documents) ==
    [documents |-> documents, question |-> st.question]

\* the for loop of grade_documents: labels[i] is the grade of documents[i]
RECURSIVE GradeLoop(_, _, _, _)
GradeLoop(documents, labels, i, filtered_docs) ==
    IF i > Len(documents) THEN filtered_docs
    ELSE IF Lower(labels[i]) = <<"y", "e", "s">>
         THEN GradeLoop(documents, labels, i + 1, Append(filtered_docs, documents[i]))
         ELSE GradeLoop(documents, labels, i + 1, filtered_docs)

Reverse(s) == [i \in 1..Len(s) |-> s[Len(s) + 1 - i]]

\* variant: relevant passages are inserted at the front instead of appended
grade_documents_prepend(st, labels) ==
    LET filtered_docs == Reverse(GradeLoop(st.documents, labels, 1, <<>>))
        results == filtered_docs # <<>>
    IN [documents |-> filtered_docs, question |-> st.question, results |-> results]

\* variant: the flag tells whether anything was retrieved, not retained
grade_documents_flag_retrieved(st, labels) ==
    LET filtered_docs == GradeLoop(st.documents, labels, 1, <<>>)
        results == st.documents # <<>>
    IN [documents |-> filtered_docs, question |-> st.question, results |-> results]

\* grade_documents: the update it returns
grade_documents(st, labels) ==
    LET filtered_docs == GradeLoop(st.documents, labels, 1, <<>>)
        results == filtered_docs # <<>>
    IN [documents |-> filtered_docs, question |-> st.question, results |-> results]

\* variant: an answer already in the state is kept
generate_keep_first(st, generation) ==
    [documents |-> st.documents, question |-> st.question,
     generation |-> IF "generation" \in DOMAIN st THEN st.generation ELSE generation]

\* generate: the update it returns, given what generation_chain returned
generate(st, generation) ==
    [documents |-> st.documents, question |-> st.question, generation |-> generation]

\* ------------------------------------------------------------ the edges
\* variant: the flag is ignored
decide_to_generate_always(st) ==
    GENERATE

\* variant: the branches are swapped
decide_to_generate_negated(st) ==
    IF st.results THEN END ELSE GENERATE

decide_to_generate(st) ==
    IF st.results THEN GENERATE ELSE END

\* mapping of the conditional edges out of GRADE_DOCUMENTS
GradeDocumentsEdges(route) ==
    CASE route = GENERATE -> GENERATE
      [] route = END -> END

\* variant: a grounded generation is accepted whatever the answer grade
grade_generation_grounded_only(st, hallucination_grade, answer_grade) ==
    IF hallucination_grade THEN "useful" ELSE "hallucination"

\* variant: the answer grade is read the wrong way round
grade_generation_swapped(st, hallucination_grade, answer_grade) ==
    IF hallucination_grade
    THEN IF answer_grade THEN "not useful" ELSE "useful"
    ELSE "hallucination"

\* the router after GENERATE, given the two graders' binary_score
grade_generation_grounded_in_documents_and_question(st, hallucination_grade, answer_grade) ==
    IF hallucination_grade
    THEN IF answer_grade THEN "useful" ELSE "not useful"
    ELSE "hallucination"

\* variant: a hallucination ends the run
GenerateEdges_hallucination_ends(route) ==
    CASE route = "not useful" -> GENERATE
      [] route = "useful" -> END
      [] route = "hallucination" -> END

\* variant: an answer that does not address the question ends the run
GenerateEdges_not_useful_ends(route) ==
    CASE route = "not useful" -> END
      [] route = "useful" -> END
      [] route = "hallucination" -> GENERATE

\* variant: a hallucination goes back to retrieval
GenerateEdges_retry_retrieves(route) ==
    CASE route = "not useful" -> GENERATE
      [] route = "useful" -> END
      [] route = "hallucination" -> RETRIEVE

\* mapping of the conditional edges out of GENERATE
GenerateEdges(route) ==
    CASE route = "not useful" -> GENERATE
      [] route = "useful" -> END
      [] route = "hallucination" -> GENERATE

\* variant: the answer grader is called whatever the groundedness grade
GradeGenerationCalls_answer_always(hallucination_grade, answer_grade, exc) ==
    IF exc = "hallucination" THEN <<Call("hallucination_grader", "", RAISE)>>
    ELSE <<Call("hallucination_grader", "", BoolStr(hallucination_grade))>> \o
         (IF exc = "answer" THEN <<Call("answer_grader", "", RAISE)>>
          ELSE <<Call("answer_grader", "", BoolStr(answer_grade))>>)

\* the grader calls the router makes; exc names the call that raises
GradeGenerationCalls(hallucination_grade, answer_grade, exc) ==
    IF exc = "hallucination" THEN <<Call("hallucination_grader", "", RAISE)>>
    ELSE <<Call("hallucination_grader", "", BoolStr(hallucination_grade))>> \o
         (IF ~hallucination_grade THEN <<>>
          ELSE IF exc = "answer" THEN <<Call("answer_grader", "", RAISE)>>
          ELSE <<Call("answer_grader", "", BoolStr(answer_grade))>>)

\* the relevance-grader calls of grade_documents; the excAt-th call raises
GradeDocumentsCalls(documents, labels, excAt) ==
    [i \in 1..(IF excAt = 0 THEN Len(documents) ELSE excAt) |->
        Call("retrieval_grader", documents[i],
             IF i = excAt THEN RAISE ELSE Text(labels[i]))]

\* ------------------------------------------------------- the HTTP layer
ERROR_DETAIL == "Error generating response"

\* variant: a missing "generation" key is an error (result["generation"])
generate_response_keyerror(p, st, exc) ==
    IF p = FAILED \/ "generation" \notin DOMAIN st
    THEN [status |-> 500, body |-> ERROR_DETAIL]
    ELSE [status |-> 200, body |-> st.generation]

\* variant: the detail names the exception (detail=str(e))
generate_response_detail(p, st, exc) ==
    IF p = FAILED
    THEN [status |-> 500, body |-> exc]
    ELSE [status |-> 200,
          body |-> IF "generation" \in DOMAIN st THEN st.generation ELSE "N/A"]

\* generate_response: what the handler sends once graph_app.invoke is over
generate_response(p, st, exc) ==
    IF p = FAILED
    THEN [status |-> 500, body |-> ERROR_DETAIL]
    ELSE [status |-> 200,
          body |-> IF "generation" \in DOMAIN st THEN st.generation ELSE "N/A"]

\* ------------------------------------------------ reading the history
\* the calls on record: those of RETRIEVE and FILTER, then those of the
\* latest pass through GENERATE (earlier passes are counted, not kept)
History == trace \o pass
CallsOf(name) == {i \in DOMAIN History : History[i].call = name}
GenCalls == generations
Raised == \E i \in DOMAIN History : History[i].out = RAISE
\* the negative judgments among the calls of one pass
Negatives(calls) ==
    Cardinality({i \in DOMAIN calls :
        /\ calls[i].call \in {"hallucination_grader", "answer_grader"}
        /\ calls[i].out = "false"})

\* --------------------------------------------------------- the actions
\* POST /generate: graph_app.invoke(input={"question": ...}) enters RETRIEVE
Invoke(q) ==
    /\ pc = IDLE
    /\ state' = [question |-> q]
    /\ pc' = RETRIEVE
    /\ UNCHANGED <<response, exception, retrieved, trace, visited, genVars>>
    /\ UNCHANGED <<ingVars, registry, indexResults, csvVars, runs>>

Retrieve ==
    /\ pc = RETRIEVE
    /\ visited' = Append(visited, RETRIEVE)
    /\ \E documents \in SeqsUpTo(Passages, MaxDocs), raises \in BOOLEAN :
        IF raises
        THEN /\ pc' = FAILED
             /\ exception' = RETRIEVE
             /\ trace' = Append(trace, Call("query_all_retrievers", state.question, RAISE))
             /\ UNCHANGED <<state, retrieved>>
        ELSE /\ state' = Merge(state, retrieve(state, documents))
             /\ retrieved' = documents
             /\ trace' = Append(trace, Call("query_all_retrievers", state.question, "ok"))
             /\ pc' = GRADE_DOCUMENTS
             /\ UNCHANGED exception
    /\ UNCHANGED <<response, genVars>>
    /\ UNCHANGED <<ingVars, registry, indexResults, csvVars, runs>>

GradeDocuments ==
    /\ pc = GRADE_DOCUMENTS
    /\ visited' = Append(visited, GRADE_DOCUMENTS)
    /\ \E labels \in [1..Len(state.documents) -> Labels],
          excAt \in 0..Len(state.documents) :
        /\ trace' = trace \o GradeDocumentsCalls(state.documents, labels, excAt)
        /\ IF excAt # 0
           THEN /\ pc' = FAILED
                /\ exception' = GRADE_DOCUMENTS
                /\ UNCHANGED state
           ELSE /\ state' = Merge(state, grade_documents(state, labels))
                /\ pc' = GradeDocumentsEdges(decide_to_generate(state'))
                /\ UNCHANGED exception
    /\ UNCHANGED <<response, retrieved, genVars>>
    /\ UNCHANGED <<ingVars, registry, indexResults, csvVars, runs>>

\* what one pass through GENERATE gets from the generator and the graders:
\* the answer, the two binary scores, and the call that raises (if any)
GenerationInputs ==
    {inp \in [generation : Answers, h : BOOLEAN, a : BOOLEAN,
              exc : {"none", "generate", "hallucination", "answer"}] :
        \* a value no call gets to return is taken once, as the first one
        /\ inp.exc = "generate" => inp.generation = "A1"
        /\ inp.exc \in {"generate", "hallucination"} => inp.h
        /\ (inp.exc # "none" \/ ~inp.h) => inp.a
        \* the answer grader is reached, and can raise, only after a positive
        /\ inp.exc = "answer" => inp.h}
\* the calls of one pass through GENERATE: the generator, then the graders
GenerateCalls(inp) ==
    IF inp.exc = "generate" THEN <<Call("generate", "", RAISE)>>
    ELSE <<Call("generate", "", inp.generation)>> \o
         GradeGenerationCalls(inp.h, inp.a, inp.exc)

\* variant: a route to END is followed before the steps are counted
AfterStep_end_first(steps, p) ==
    IF p = END THEN END
    ELSE IF steps >= RECURSION_LIMIT THEN FAILED ELSE p

\* graph_app.invoke after a node step: a run that has taken RECURSION_LIMIT
\* steps fails whatever the route out of the node, also a route to END; a
\* run with steps left follows the route
AfterStep(steps, p) ==
    IF steps >= RECURSION_LIMIT THEN FAILED ELSE p

\* one step through GENERATE: the generator, the router with its graders,
\* and the step limit (RETRIEVE and FILTER are steps 1 and 2 of a run, so
\* GENERATE is the only node a run can be in at its last step)
Generate ==
    /\ pc = GENERATE
    /\ visited' = Append(visited, GENERATE)
    /\ generations' = generations + 1
    /\ \E inp \in GenerationInputs :
        LET st == Merge(state, generate(state, inp.generation))
            calls == GenerateCalls(inp)
        IN /\ pass' = calls
           /\ rejections' = rejections + Negatives(calls)
           /\ IF calls[Len(calls)].out = RAISE
              THEN /\ pc' = FAILED
                   /\ exception' = calls[Len(calls)].call
                   /\ UNCHANGED state
              ELSE LET p == AfterStep(Len(visited) + 1,
                                GenerateEdges(
                                    grade_generation_grounded_in_documents_and_question(
                                        st, inp.h, inp.a)))
                   IN /\ state' = st
                      /\ pc' = p
                      /\ exception' = IF p = FAILED THEN RECURSION_ERROR ELSE exception
    /\ UNCHANGED <<response, retrieved, trace>>
    /\ UNCHANGED <<ingVars, registry, indexResults, csvVars, runs>>

\* graph_app.invoke returned or raised: the handler answers the caller
Respond ==
    /\ pc \in {END, FAILED}
    /\ response = NoResponse
    /\ response' = generate_response(pc, state, exception)
    /\ UNCHANGED <<pc, state, exception, retrieved, trace, visited, genVars>>
    /\ UNCHANGED <<ingVars, registry, indexResults, csvVars, runs>>

Next ==
    \/ \E q \in Questions : Invoke(q)
    \/ Retrieve
    \/ GradeDocuments
    \/ Generate
    \/ Respond

Spec == Init /\ [][Next]_vars

\* ------------------------------------------------------------ ingestion
\* a dict with key k set to v
Put(d, k, v) == [x \in (DOMAIN d) \cup {k} |-> IF x = k THEN v ELSE d[x]]
LogRecord(msg, detail) == [msg |-> msg, detail |-> detail]

\* process_csv_to_vectorstore: returns the store, or logs and re-raises
process_csv_to_vectorstore(csv_file, collection_name, outcome) ==
    IF outcome = "ok"
    THEN [raised |-> FALSE,
          value |-> [collection |-> collection_name, source |-> csv_file],
          log |-> <<>>]
    ELSE [raised |-> TRUE,
          value |-> [collection |-> "", source |-> ""],
          log |-> <<LogRecord("Error processing CSV file", outcome)>>]

\* initialize_retriever: returns the retriever, or logs and re-raises
initialize_retriever(collection_name, outcome) ==
    IF outcome = "ok"
    THEN [raised |-> FALSE, value |-> [retriever_of |-> collection_name], log |-> <<>>]
    ELSE [raised |-> TRUE, value |-> [retriever_of |-> ""],
          log |-> <<LogRecord("Error initializing retriever", outcome)>>]

\* the loop of setup_vectorstores: try/except around each source
RECURSIVE SetupVectorstoresLoop(_, _, _, _, _)
SetupVectorstoresLoop(cfg, outs, i, stores, lg) ==
    IF i > Len(cfg) THEN [value |-> stores, log |-> lg]
    ELSE LET r == process_csv_to_vectorstore(
                      cfg[i].csv_file, cfg[i].collection_name, outs[i])
         IN IF r.raised
            THEN SetupVectorstoresLoop(cfg, outs, i + 1, stores,
                     lg \o r.log \o <<LogRecord("Failed to process", cfg[i].csv_file)>>)
            ELSE SetupVectorstoresLoop(cfg, outs, i + 1,
                     Put(stores, cfg[i].collection_name, r.value), lg \o r.log)

\* variant: the first failing source ends the loop
RECURSIVE AbortingVectorstoresLoop(_, _, _, _, _)
AbortingVectorstoresLoop(cfg, outs, i, stores, lg) ==
    IF i > Len(cfg) THEN [value |-> stores, log |-> lg]
    ELSE LET r == process_csv_to_vectorstore(
                      cfg[i].csv_file, cfg[i].collection_name, outs[i])
         IN IF r.raised
            THEN [value |-> stores,
                  log |-> lg \o r.log \o <<LogRecord("Failed to process", cfg[i].csv_file)>>]
            ELSE AbortingVectorstoresLoop(cfg, outs, i + 1,
                     Put(stores, cfg[i].collection_name, r.value), lg \o r.log)
setup_vectorstores_abort(cfg, outs) ==
    AbortingVectorstoresLoop(cfg, outs, 1, NoState, <<>>)

setup_vectorstores(cfg, outs) ==
    SetupVectorstoresLoop(cfg, outs, 1, NoState, <<>>)

\* the loop of setup_retrievers: try/except around each collection
RECURSIVE SetupRetrieversLoop(_, _, _, _, _)
SetupRetrieversLoop(collections, outs, i, rs, lg) ==
    IF i > Len(collections) THEN [value |-> rs, log |-> lg]
    ELSE LET r == initialize_retriever(collections[i], outs[i])
         IN IF r.raised
            THEN SetupRetrieversLoop(collections, outs, i + 1, rs,
                     lg \o r.log \o
                     <<LogRecord("Failed to initialize retriever for", collections[i])>>)
            ELSE SetupRetrieversLoop(collections, outs, i + 1,
                     Put(rs, collections[i], r.value), lg \o r.log)

\* the keys of the dict setup_retrievers returns, in insertion order: a key
\* keeps the place of its first insertion
RECURSIVE DictKeys(_, _, _, _)
DictKeys(collections, outs, i, keys) ==
    IF i > Len(collections) THEN keys
    ELSE IF outs[i] = "ok" /\ \A k \in DOMAIN keys : keys[k] # collections[i]
         THEN DictKeys(collections, outs, i + 1, Append(keys, collections[i]))
         ELSE DictKeys(collections, outs, i + 1, keys)

setup_retrievers(collections, outs) ==
    SetupRetrieversLoop(collections, outs, 1, NoState, <<>>)

\* csv_config of the ingestion script: csv file -> collection name, in order
Configs ==
    {[i \in 1..Len(cs) |-> [csv_file |-> CsvFiles[i], collection_name |-> cs[i]]] :
        cs \in SeqsUpTo(Collections, MaxSources)}

\* list(csv_config.values())
ConfigValues(cfg) == [i \in 1..Len(cfg) |-> cfg[i].collection_name]

InitIngest ==
    /\ pc = IDLE
    /\ state = NoState
    /\ response = NoResponse
    /\ exception = ""
    /\ retrieved = <<>>
    /\ trace = <<>>
    /\ pass = <<>>
    /\ generations = 0
    /\ rejections = 0
    /\ csv_config \in Configs
    /\ ipc = "start"
    /\ vectorstores = NoState
    /\ retrievers = NoState
    /\ outcomes = NoState
    /\ log = <<>>
    /\ visited = <<>>
    /\ registry = <<>>
    /\ indexResults = <<>>
    /\ df = <<>>
    /\ docs = <<>>
    /\ runs = NoState

\* the script's call of setup_vectorstores(csv_config)
SetupVectorstores ==
    /\ ipc = "start"
    /\ \E outs \in [1..Len(csv_config) -> SourceOutcomes] :
        LET r == setup_vectorstores(csv_config, outs)
        IN /\ vectorstores' = r.value
           /\ log' = log \o r.log
           /\ outcomes' = Put(outcomes, "sources", outs)
    /\ ipc' = "vectorstores"
    /\ UNCHANGED <<csv_config, retrievers>>
    /\ UNCHANGED <<wfVars, registry, indexResults, csvVars, runs>>

\* the script's call of setup_retrievers(list(csv_config.values()))
SetupRetrievers ==
    /\ ipc = "vectorstores"
    /\ \E outs \in [1..Len(csv_config) -> RetrieverOutcomes] :
        LET r == setup_retrievers(ConfigValues(csv_config), outs)
        IN /\ retrievers' = r.value
           /\ log' = log \o r.log
           /\ registry' = DictKeys(ConfigValues(csv_config), outs, 1, <<>>)
           /\ outcomes' = Put(outcomes, "retrievers", outs)
    /\ ipc' = "retrievers"
    /\ UNCHANGED <<csv_config, vectorstores>>
    /\ UNCHANGED <<wfVars, indexResults, csvVars, runs>>

NextIngest ==
    \/ SetupVectorstores
    \/ SetupRetrievers

SpecIngest == InitIngest /\ [][NextIngest]_vars

\* ------------------------------------------------- retrieval by index
\* query_all_retrievers: every registered index is asked, in registration
\* order, and the results are concatenated; results[c] is what the index of
\* collection c returns to the query
RECURSIVE query_all_retrievers(_, _, _)
query_all_retrievers(reg, results, i) ==
    IF i > Len(reg) THEN <<>>
    ELSE results[reg[i]] \o query_all_retrievers(reg, results, i + 1)

\* the vector stores exist already; the service sets up its retrievers
InitRetrieve ==
    /\ pc = IDLE
    /\ state = NoState
    /\ response = NoResponse
    /\ exception = ""
    /\ retrieved = <<>>
    /\ trace = <<>>
    /\ pass = <<>>
    /\ generations = 0
    /\ rejections = 0
    /\ csv_config \in {cfg \in Configs : Len(cfg) <= MaxIndexes}
    /\ ipc = "vectorstores"
    /\ vectorstores = NoState
    /\ retrievers = NoState
    /\ outcomes = NoState
    /\ log = <<>>
    /\ visited = <<>>
    /\ registry = <<>>
    /\ indexResults = <<>>
    /\ df = <<>>
    /\ docs = <<>>
    /\ runs = NoState

\* the retrieve node over the registered indexes
RetrieveIndexes ==
    /\ pc = RETRIEVE
    /\ ipc = "retrievers"
    /\ visited' = Append(visited, RETRIEVE)
    /\ \E results \in [DOMAIN retrievers -> SeqsUpTo(Passages, MaxPerIndex)],
          raises \in BOOLEAN :
        IF raises
        THEN /\ pc' = FAILED
             /\ exception' = RETRIEVE
             /\ trace' = Append(trace, Call("query_all_retrievers", state.question, RAISE))
             /\ UNCHANGED <<state, retrieved, indexResults>>
        ELSE LET documents == query_all_retrievers(registry, results, 1)
             IN /\ state' = Merge(state, retrieve(state, documents))
                /\ retrieved' = documents
                /\ indexResults' =
                      [i \in 1..Len(registry) |->
                          [collection |-> registry[i], query |-> state.question,
                           documents |-> results[registry[i]]]]
                /\ trace' = Append(trace, Call("query_all_retrievers", state.question, "ok"))
                /\ pc' = GRADE_DOCUMENTS
                /\ UNCHANGED exception
    /\ UNCHANGED <<response, genVars>>
    /\ UNCHANGED <<ingVars, registry, csvVars, runs>>

NextRetrieve ==
    \/ SetupRetrievers
    \/ \E q \in Questions : Invoke(q)
    \/ RetrieveIndexes

SpecRetrieve == InitRetrieve /\ [][NextRetrieve]_vars

\* ------------------------------------------------------ CSV to documents
\* a text is a sequence of tokens; OPEN is the text {"url": and CLOSE is }
OPEN == "{\"url\":"
CLOSE == "}"
NEWLINE == "\n"
PlainText == <<"hello">>
UrlText == <<"hello", OPEN, "http://x", CLOSE, "world">>
\* a cell of the data frame: NaN, or a text
NaN == [nan |-> TRUE, text |-> <<>>]
TextCell(t) == [nan |-> FALSE, text |-> t]
CellValues == {NaN, TextCell(PlainText), TextCell(UrlText)}
Columns == <<"id", "data", "input">>
\* a data frame as read_csv returns it: rows in file order, index 0, 1, ...
Frames == SeqsUpTo([DOMAIN Columns -> CellValues], MaxRows)

\* the elements of S, a set of numbers up to n, in ascending order
RECURSIVE Ascending(_, _)
Ascending(S, n) ==
    IF n = 0 THEN <<>>
    ELSE IF n \in S THEN Append(Ascending(S, n - 1), n) ELSE Ascending(S, n - 1)

\* the end of the first match of \{"url":.*?\} that starts at i, or 0:
\* the first CLOSE after i with no line break before it
RECURSIVE MatchEnd(_, _)
MatchEnd(text, j) ==
    IF j > Len(text) THEN 0
    ELSE IF text[j] = CLOSE THEN j
    ELSE IF text[j] = NEWLINE THEN 0
    ELSE MatchEnd(text, j + 1)

\* clean_text: re.sub(r'\{"url":.*?\}', "", text), scanning from token i
RECURSIVE CleanFrom(_, _)
CleanFrom(text, i) ==
    IF i > Len(text) THEN <<>>
    ELSE IF text[i] = OPEN /\ MatchEnd(text, i + 1) # 0
         THEN CleanFrom(text, MatchEnd(text, i + 1) + 1)
         ELSE <<text[i]>> \o CleanFrom(text, i + 1)
clean_text(text) == CleanFrom(text, 1)

\* str(row[col])
Str(cell) == IF cell.nan THEN <<"nan">> ELSE cell.text

\* variant: every column is cleaned
CellText_clean_all(col, cell) ==
    clean_text(Str(cell))

\* the text of one cell in the page content
CellText(col, cell) ==
    IF col \in {"data", "input"} THEN clean_text(Str(cell)) ELSE Str(cell)

\* df.dropna(axis=1, how="all"): the columns with a value in some row
KeptColumns(frame) ==
    Ascending({c \in DOMAIN Columns : \E r \in DOMAIN frame : ~frame[r][c].nan},
              Len(Columns))
\* then df.dropna(axis=0, how="all"): the rows with a value in a kept column
KeptRows(frame) ==
    LET cols == KeptColumns(frame)
    IN Ascending({r \in DOMAIN frame : \E k \in DOMAIN cols : ~frame[r][cols[k]].nan},
                 Len(frame))

\* the documents process_csv_to_vectorstore hands to Chroma.from_documents;
\* page_content is the list of "col:\ncell" parts that "\n\n" joins
CsvDocuments(csv_file, frame) ==
    LET cols == KeptColumns(frame)
        rows == KeptRows(frame)
    IN [k \in 1..Len(rows) |->
          [page_content |->
              [c \in 1..Len(cols) |->
                  [column |-> Columns[cols[c]],
                   text |-> CellText(Columns[cols[c]], frame[rows[k]][cols[c]])]],
           metadata |-> [source |-> csv_file, row |-> rows[k] - 1]]]

InitCsv ==
    /\ pc = IDLE
    /\ state = NoState
    /\ response = NoResponse
    /\ exception = ""
    /\ retrieved = <<>>
    /\ trace = <<>>
    /\ pass = <<>>
    /\ generations = 0
    /\ rejections = 0
    /\ csv_config = <<[csv_file |-> CsvFiles[1], collection_name |-> "c1"]>>
    /\ ipc = "csv"
    /\ vectorstores = NoState
    /\ retrievers = NoState
    /\ outcomes = NoState
    /\ log = <<>>
    /\ visited = <<>>
    /\ registry = <<>>
    /\ indexResults = <<>>
    /\ df \in Frames
    /\ docs = <<>>
    /\ runs = NoState

\* process_csv_to_vectorstore up to the call of Chroma.from_documents
ProcessCsv ==
    /\ ipc = "csv"
    /\ docs' = CsvDocuments(csv_config[1].csv_file, df)
    /\ ipc' = "csv_done"
    /\ UNCHANGED <<csv_config, vectorstores, retrievers, outcomes, log, df>>
    /\ UNCHANGED <<wfVars, registry, indexResults, runs>>

NextCsv ==
    ProcessCsv

SpecCsv == InitCsv /\ [][NextCsv]_vars

\* -------------------------------------------------- concurrent requests
\* the requests the service handles at the same time
Requests == {"r1", "r2"}
\* the question each request carries: the two requests ask different ones
QuestionOf == [r \in Requests |-> IF r = "r1" THEN "q1" ELSE "q2"]

\* the run of a request: where it is, its own state mapping, its response,
\* the steps graph_app.invoke has taken for it (LangGraph counts them while
\* the run executes), and history: the question asked and the output of its
\* latest generator call
IdleRun ==
    [pc |-> IDLE, state |-> NoState, response |-> NoResponse,
     steps |-> 0, q0 |-> "", lastGen |-> ""]

\* the run of request r has taken one more step and moves to position p,
\* or fails when that step used up its steps: the step is counted while the
\* run goes on, and the count goes with the run when invoke is over
Step(rs, r, p) ==
    LET n == rs[r].steps + 1
        q == AfterStep(n, p)
    IN [rs EXCEPT ![r].pc = q,
                  ![r].steps = IF q \in {END, FAILED} THEN 0 ELSE n]

\* the state mapping the stages of request r read
RunState(rs, r) == rs[r].state

\* variant: one state mapping serves every request
StoreState_shared(rs, r, st) ==
    [x \in DOMAIN rs |-> [rs[x] EXCEPT !.state = st]]

\* the state mapping of request r is written: each graph_app.invoke has its
\* own state, created from its own input
StoreState(rs, r, st) ==
    [rs EXCEPT ![r].state = st]

InitConc ==
    /\ pc = IDLE
    /\ state = NoState
    /\ response = NoResponse
    /\ exception = ""
    /\ retrieved = <<>>
    /\ trace = <<>>
    /\ pass = <<>>
    /\ generations = 0
    /\ rejections = 0
    /\ csv_config = <<>>
    /\ ipc = "off"
    /\ vectorstores = NoState
    /\ retrievers = NoState
    /\ outcomes = NoState
    /\ log = <<>>
    /\ visited = <<>>
    /\ registry = <<>>
    /\ indexResults = <<>>
    /\ df = <<>>
    /\ docs = <<>>
    /\ runs = [r \in Requests |-> IdleRun]

ConcUnchanged ==
    UNCHANGED <<wfVars, ingVars, registry, indexResults, csvVars>>

ConcInvoke(r, q) ==
    /\ runs[r].pc = IDLE
    /\ runs' = StoreState([runs EXCEPT ![r].pc = RETRIEVE, ![r].q0 = q],
                          r, [question |-> q])
    /\ ConcUnchanged

ConcRetrieve(r) ==
    /\ runs[r].pc = RETRIEVE
    /\ \E documents \in SeqsUpTo(Passages, MaxConcDocs), raises \in BOOLEAN :
        IF raises
        THEN runs' = Step(runs, r, FAILED)
        ELSE LET st == RunState(runs, r)
             IN runs' = StoreState(Step(runs, r, GRADE_DOCUMENTS),
                                   r, Merge(st, retrieve(st, documents)))
    /\ ConcUnchanged

ConcGradeDocuments(r) ==
    /\ runs[r].pc = GRADE_DOCUMENTS
    /\ LET st == RunState(runs, r)
       IN \E labels \in [1..Len(st.documents) -> Labels],
             excAt \in 0..Len(st.documents) :
            IF excAt # 0
            THEN runs' = Step(runs, r, FAILED)
            ELSE LET new == Merge(st, grade_documents(st, labels))
                 IN runs' = StoreState(
                        Step(runs, r, GradeDocumentsEdges(decide_to_generate(new))),
                        r, new)
    /\ ConcUnchanged

ConcGenerate(r) ==
    /\ runs[r].pc = GENERATE
    /\ \E inp \in GenerationInputs :
        LET st == RunState(runs, r)
            new == Merge(st, generate(st, inp.generation))
            calls == GenerateCalls(inp)
        IN IF calls[Len(calls)].out = RAISE
           THEN runs' = Step(runs, r, FAILED)
           ELSE runs' = StoreState(
                    [Step(runs, r, GenerateEdges(
                            grade_generation_grounded_in_documents_and_question(
                                new, inp.h, inp.a)))
                     EXCEPT ![r].lastGen = inp.generation],
                    r, new)
    /\ ConcUnchanged

ConcRespond(r) ==
    /\ runs[r].pc \in {END, FAILED}
    /\ runs[r].response = NoResponse
    /\ runs' = [runs EXCEPT ![r].response =
                   generate_response(runs[r].pc, RunState(runs, r), "")]
    /\ ConcUnchanged

NextConc ==
    \/ \E r \in Requests : ConcInvoke(r, QuestionOf[r])
    \/ \E r \in Requests : ConcRetrieve(r)
    \/ \E r \in Requests : ConcGradeDocuments(r)
    \/ \E r \in Requests : ConcGenerate(r)
    \/ \E r \in Requests : ConcRespond(r)

SpecConc == InitConc /\ [][NextConc]_vars

\* ------------------------------------------------ reading the history
Filtered == "results" \in DOMAIN state
\* s can be obtained from t by deleting elements
IsSubsequence(s, t) ==
    \E f \in [1..Len(s) -> 1..Len(t)] :
        /\ \A i \in 1..Len(s) : t[f[i]] = s[i]
        /\ \A i, j \in 1..Len(s) : i < j => f[i] < f[j]
\* the labels of the model that read "yes" when case is ignored
AffirmativeLabels == {"yes", "YeS"}
AllIrrelevant == \A i \in CallsOf("retrieval_grader") : trace[i].out \notin AffirmativeLabels
\* what the latest generator call returned
LastAnswer == pass[1].out
RejectedCount == rejections
\* the latest pass is a generation with two positive judgments on it
BothPositive ==
    /\ Len(pass) = 3
    /\ pass[1].call = "generate"
    /\ pass[2] = Call("hallucination_grader", "", "true")
    /\ pass[3] = Call("answer_grader", "", "true")
AllRejected == GenCalls >= 1 /\ ~Raised /\ RejectedCount = GenCalls

\* C1: after FILTER the passage sequence in the state is a subsequence of
\* what RETRIEVE produced: nothing added, nothing duplicated, order kept.
C1_FilterSubsequence ==
    Filtered => IsSubsequence(state.documents, retrieved)
C1_Witness ==
    /\ Filtered
    /\ Len(retrieved) = 2 /\ retrieved[1] # retrieved[2]
    /\ state.documents = retrieved

\* C2: when every retrieved passage is graded irrelevant (or none was
\* retrieved) the run ends right after FILTER and neither the generator nor
\* the groundedness grader nor the answer grader is ever called.
C2_NoResultsEnds ==
    (Filtered /\ AllIrrelevant) =>
        /\ pc = END
        /\ CallsOf("generate") = {}
        /\ CallsOf("hallucination_grader") = {}
        /\ CallsOf("answer_grader") = {}
C2_Witness ==
    Filtered /\ AllIrrelevant /\ Len(retrieved) = 2 /\ pc = END

OutOfSteps == pc = FAILED /\ exception = RECURSION_ERROR
\* the latest node step was the last one the framework allows the run
LastStep == Len(visited) = RECURSION_LIMIT

\* C3 as stated: when both judgments on the current generation are positive
\* the run ends in that step and the answer returned is the last generator
\* output.
C3_Original ==
    BothPositive =>
        /\ pc = END
        /\ state.generation = LastAnswer
        /\ response # NoResponse =>
              response = [status |-> 200, body |-> LastAnswer]
\* C3 amended: when both judgments on the current generation are positive
\* and the step was not the run's 25th, the run ends in that step and the
\* answer returned is the last generator output; when the step was the 25th
\* (the 23rd generator call) the run fails on the framework's step limit and
\* the caller gets HTTP 500 with the fixed message.
C3_BothPositiveReturnsLast ==
    BothPositive =>
        IF ~LastStep
        THEN /\ pc = END
             /\ state.generation = LastAnswer
             /\ response # NoResponse =>
                   response = [status |-> 200, body |-> LastAnswer]
        ELSE /\ OutOfSteps
             /\ GenCalls = MaxGenerations
             /\ response # NoResponse =>
                   response = [status |-> 500, body |-> ERROR_DETAIL]
C3_Witness ==
    /\ BothPositive /\ LastStep
    /\ GenCalls = MaxGenerations /\ RejectedCount = MaxGenerations - 1
    /\ response = [status |-> 500, body |-> ERROR_DETAIL]

\* C4 as stated: a negative groundedness judgment always leads back to
\* GENERATE with the same question and the same retained passages; apart from
\* the answer the state is what it was.
C4_Original ==
    [][(/\ generations' > generations
        /\ pass'[Len(pass')] = Call("hallucination_grader", "", "false"))
       => /\ pc' = GENERATE
          /\ state'.question = state.question
          /\ state'.documents = state.documents
          /\ \A k \in (DOMAIN state') \ {"generation"} :
                k \in DOMAIN state /\ state'[k] = state[k]]_vars
\* C4 amended: a negative groundedness judgment leads back to GENERATE with
\* the same question and the same retained passages, and with nothing in the
\* state mapping counting the retries, unless the step was the run's 25th:
\* then the run fails on the framework's step limit. The framework's count
\* of the run's steps grows by one with each pass through GENERATE.
C4_HallucinationRetries ==
    [][(/\ generations' > generations
        /\ pass'[Len(pass')] = Call("hallucination_grader", "", "false"))
       => /\ Len(visited') = Len(visited) + 1
          /\ IF Len(visited') < RECURSION_LIMIT
             THEN /\ pc' = GENERATE
                  /\ exception' = ""
                  /\ state'.question = state.question
                  /\ state'.documents = state.documents
                  /\ \A k \in (DOMAIN state') \ {"generation"} :
                        k \in DOMAIN state /\ state'[k] = state[k]
             ELSE /\ pc' = FAILED
                  /\ exception' = RECURSION_ERROR
                  /\ generations' = MaxGenerations]_vars
C4_Witness ==
    /\ OutOfSteps /\ LastStep
    /\ pass = <<Call("generate", "", "A2"), Call("hallucination_grader", "", "false")>>
    /\ GenCalls = MaxGenerations /\ RejectedCount = MaxGenerations
    /\ response = NoResponse

\* C5 as stated: the retry loop has no bound: as long as every generation
\* so far was rejected the run is back in GENERATE, with no response and no
\* error reported.
C5_Original ==
    AllRejected => pc = GENERATE /\ response = NoResponse /\ exception = ""
\* C5 amended: the workflow sets no bound; while every generation is rejected
\* the run goes back to GENERATE, until the framework's limit of 25 steps
\* (23 generator calls) is used up: then the run fails, and the caller gets
\* HTTP 500 with the fixed message. A run that generated ends successfully
\* only on a generation with two positive judgments.
C5_RetryUntilStepLimit ==
    /\ GenCalls <= MaxGenerations
    /\ AllRejected =>
          \/ /\ pc = GENERATE /\ response = NoResponse /\ exception = ""
             /\ GenCalls < MaxGenerations
          \/ /\ OutOfSteps /\ GenCalls = MaxGenerations
             /\ response \in {NoResponse, [status |-> 500, body |-> ERROR_DETAIL]}
    /\ OutOfSteps => LastStep /\ GenCalls = MaxGenerations
    /\ (pc = END /\ GenCalls >= 1) => BothPositive
C5_Witness ==
    /\ OutOfSteps /\ AllRejected /\ GenCalls = MaxGenerations
    /\ response = [status |-> 500, body |-> ERROR_DETAIL]

\* C6 as stated: a response is either a success carrying an answer the
\* generator produced, or HTTP 500 with the fixed message.
C6_Original ==
    response # NoResponse =>
        \/ /\ response.status = 200
           /\ GenCalls >= 1 /\ response.body = LastAnswer
        \/ response = [status |-> 500, body |-> ERROR_DETAIL]
\* C6 amended: a response is exactly one of: HTTP 500 with the fixed message
\* after a failed run, a success carrying the last generator output, or, for
\* a run that ended with no relevant documents, a success carrying "N/A".
C6_ThreeOutcomes ==
    response # NoResponse =>
        \/ pc = FAILED /\ response = [status |-> 500, body |-> ERROR_DETAIL]
        \/ /\ pc = END /\ GenCalls >= 1
           /\ response = [status |-> 200, body |-> LastAnswer]
        \/ /\ pc = END /\ GenCalls = 0
           /\ response = [status |-> 200, body |-> "N/A"]
C6_Witness ==
    /\ pc = END /\ Filtered /\ ~state.results
    /\ response = [status |-> 200, body |-> "N/A"]

\* C7: an exception in any stage stops the run at that call (it is the last
\* call made), reaches the handler, and the caller gets HTTP 500 with the
\* fixed message whatever the stage, with nothing of the state in it.
C7_ExceptionPropagates ==
    /\ Raised => pc = FAILED /\ exception \notin {"", RECURSION_ERROR}
    /\ (pc = FAILED /\ ~OutOfSteps) =>
        /\ History # <<>> /\ History[Len(History)].out = RAISE
        /\ \A i \in 1..(Len(History) - 1) : History[i].out # RAISE
    /\ pc = FAILED =>
        /\ exception # ""
        /\ response # NoResponse =>
              response = [status |-> 500, body |-> ERROR_DETAIL]
C7_Witness ==
    /\ pc = FAILED /\ exception = "answer_grader"
    /\ response.status = 500
    /\ GenCalls = 2

\* C8: in a run that ends successfully the generator was called once plus
\* once per rejected generation, and the answer is the last call's output.
C8_GeneratorCallCount ==
    (pc = END /\ GenCalls >= 1) =>
        /\ GenCalls = 1 + RejectedCount
        /\ state.generation = LastAnswer
        /\ response # NoResponse => response.body = LastAnswer
C8_Witness ==
    /\ pc = END /\ GenCalls = 2 /\ RejectedCount = 1
    /\ response = [status |-> 200, body |-> "A2"]

\* C9: FILTER sets the results flag iff a passage was retained, and the run
\* goes to GENERATE exactly when the flag is true, to the end when false.
C9_FlagAndRouting ==
    [][(pc = GRADE_DOCUMENTS /\ pc' \notin {GRADE_DOCUMENTS, FAILED})
       => /\ state'.results <=> (state'.documents # <<>>)
          /\ pc' = GENERATE <=> state'.results
          /\ pc' = END <=> ~state'.results]_vars
C9_Witness ==
    /\ pc = GENERATE /\ GenCalls = 0
    /\ state.results
    /\ Len(retrieved) = 2 /\ Len(state.documents) = 1

Succeeded(phase) == {i \in DOMAIN csv_config : outcomes[phase][i] = "ok"}
FailedOnes(phase) == (DOMAIN csv_config) \ Succeeded(phase)
LoggedAbout(msg) == {log[i].detail : i \in {j \in DOMAIN log : log[j].msg = msg}}

\* C10: a source whose processing fails is logged and skipped, every other
\* source before or after it is still processed, and each returned mapping
\* holds exactly the collections whose processing succeeded.
C10_FailuresIsolated ==
    /\ "sources" \in DOMAIN outcomes =>
        /\ DOMAIN vectorstores =
              {csv_config[i].collection_name : i \in Succeeded("sources")}
        /\ LoggedAbout("Failed to process") =
              {csv_config[i].csv_file : i \in FailedOnes("sources")}
    /\ "retrievers" \in DOMAIN outcomes =>
        /\ DOMAIN retrievers =
              {csv_config[i].collection_name : i \in Succeeded("retrievers")}
        /\ LoggedAbout("Failed to initialize retriever for") =
              {csv_config[i].collection_name : i \in FailedOnes("retrievers")}
C10_Witness ==
    /\ ipc = "retrievers"
    /\ Len(csv_config) = 3
    /\ Cardinality({csv_config[i].collection_name : i \in 1..3}) = 3
    /\ outcomes["sources"] = <<"ok", "csv_error", "ok">>
    /\ outcomes["retrievers"] = <<"init_error", "ok", "ok">>
    /\ DOMAIN vectorstores = {csv_config[1].collection_name, csv_config[3].collection_name}

\* C12 as stated: a run ends successfully only in a step whose generation
\* got two positive judgments; a grounded generation that does not address
\* the question never ends the run and sends it back to GENERATE, like an
\* ungrounded one, with nothing but the answer changed.
C12_Original ==
    [][(/\ pc = GENERATE /\ generations' > generations
        /\ pass'[Len(pass')].out # RAISE)
       => LET n == Len(pass')
          IN /\ pc' = END =>
                  /\ pass'[n] = Call("answer_grader", "", "true")
                  /\ pass'[n - 1] = Call("hallucination_grader", "", "true")
             /\ pass'[n].out = "false" =>
                  /\ pc' = GENERATE
                  /\ response' = NoResponse
                  /\ state'.documents = state.documents
                  /\ state'.question = state.question]_vars
\* C12 amended: a run ends successfully only in a step whose generation got
\* two positive judgments, and in every such step but the run's 25th; a
\* grounded generation that does not address the question never ends the run
\* with success: like an ungrounded one it sends the run back to GENERATE
\* with nothing but the answer changed, unless the step was the run's 25th,
\* when the run fails on the framework's step limit.
C12_SuccessNeedsBoth ==
    [][(/\ pc = GENERATE /\ generations' > generations
        /\ pass'[Len(pass')].out # RAISE)
       => LET n == Len(pass')
          IN /\ pc' = END <=>
                  /\ pass'[n] = Call("answer_grader", "", "true")
                  /\ pass'[n - 1] = Call("hallucination_grader", "", "true")
                  /\ Len(visited') < RECURSION_LIMIT
             /\ pass'[n].out = "false" =>
                  IF Len(visited') < RECURSION_LIMIT
                  THEN /\ pc' = GENERATE
                       /\ response' = NoResponse
                       /\ exception' = ""
                       /\ state'.documents = state.documents
                       /\ state'.question = state.question
                  ELSE /\ pc' = FAILED
                       /\ exception' = RECURSION_ERROR
                       /\ response' = NoResponse]_vars
C12_Witness ==
    /\ OutOfSteps /\ LastStep /\ GenCalls = MaxGenerations
    /\ response = [status |-> 500, body |-> ERROR_DETAIL]
    /\ pass = <<Call("generate", "", "A2"),
                Call("hallucination_grader", "", "true"),
                Call("answer_grader", "", "false")>>

\* C13: each generation is judged by the groundedness grader exactly once,
\* first; the answer grader is called at most once for it, after that, and
\* only when the groundedness judgment on it was positive.
C13_GraderOrder ==
    /\ GenCalls >= 1 <=> pass # <<>>
    /\ \A i \in DOMAIN pass :
          pass[i].call = (CASE i = 1 -> "generate"
                            [] i = 2 -> "hallucination_grader"
                            [] OTHER -> "answer_grader")
    /\ Len(pass) <= 3
    /\ (pass # <<>> /\ pass[1].out # RAISE) => Len(pass) >= 2
    /\ Len(pass) = 3 <=> (Len(pass) >= 2 /\ pass[2].out = "true")
C13_Witness ==
    /\ GenCalls = 2 /\ RejectedCount = 2
    /\ pass = <<Call("generate", "", "A1"), Call("hallucination_grader", "", "false")>>

RetainedPositions == {k \in 1..Len(retrieved) : trace[k + 1].out \in AffirmativeLabels}

\* C14: FILTER calls the relevance grader once per retrieved passage, in
\* retrieval order, for every passage, and retains a passage iff its label
\* is "yes" when case is ignored.
C14_GradeEachOnce ==
    Filtered =>
        /\ CallsOf("retrieval_grader") = 2..(Len(retrieved) + 1)
        /\ \A k \in 1..Len(retrieved) : trace[k + 1].arg = retrieved[k]
        /\ Len(state.documents) = Cardinality(RetainedPositions)
        /\ \A k \in RetainedPositions :
              state.documents[Cardinality({j \in RetainedPositions : j <= k})] = retrieved[k]
C14_Witness ==
    /\ Filtered /\ Len(retrieved) = 2 /\ retrieved[1] # retrieved[2]
    /\ trace[2].out = "No" /\ trace[3].out = "YeS"
    /\ state.documents = <<retrieved[2]>>

\* C15: the state holds no answer before the first generation and then the
\* output of the latest generator call; GENERATE changes the answer only,
\* and no stage changes the question the run was entered with.
C15_AnswerOverwritten ==
    /\ [](pc # FAILED =>
            /\ "generation" \in DOMAIN state <=> GenCalls >= 1
            /\ GenCalls >= 1 =>
                  state.generation = LastAnswer /\ state.generation \in Answers)
    /\ [][/\ pc # IDLE => state'.question = state.question
          /\ (pc = GENERATE /\ pc' # FAILED) =>
                /\ (DOMAIN state') \ {"generation"} = (DOMAIN state) \ {"generation"}
                /\ \A k \in (DOMAIN state) \ {"generation"} : state'[k] = state[k]]_vars
C15_Witness ==
    /\ pc = GENERATE /\ GenCalls = 2
    /\ state.generation = LastAnswer /\ LastAnswer = "A2"

\* C19: whenever GENERATE is entered, and so whenever the generator or the
\* groundedness grader has been called, the retained passages are not empty
\* and the results flag is true.
C19_GenerateHasPassages ==
    (pc = GENERATE \/ GenCalls >= 1) =>
        /\ Filtered
        /\ state.documents # <<>>
        /\ state.results
C19_Witness ==
    /\ pc = GENERATE /\ GenCalls = 1
    /\ Len(retrieved) = 2 /\ Len(state.documents) = 1

\* C18: a run executes RETRIEVE once, then FILTER once, and only then
\* GENERATE, however often GENERATE is retried: the nodes executed are a
\* prefix of retrieve, grade_documents, generate, generate, ...
C18_RetrieveFilterOnce ==
    /\ \A i \in DOMAIN visited :
          visited[i] = (IF i = 1 THEN RETRIEVE
                        ELSE IF i = 2 THEN GRADE_DOCUMENTS ELSE GENERATE)
    /\ pc = GRADE_DOCUMENTS => visited = <<RETRIEVE>>
    /\ (pc \in {GENERATE, END} \/ GenCalls >= 1) =>
          /\ Len(visited) >= 2
          /\ Cardinality(CallsOf("query_all_retrievers")) = 1
          /\ Cardinality(CallsOf("retrieval_grader")) = Len(retrieved)
    /\ \A i \in CallsOf("query_all_retrievers") \cup CallsOf("retrieval_grader") :
          \A j \in CallsOf("generate") : i < j
C18_Witness ==
    /\ pc = END
    /\ visited = <<RETRIEVE, GRADE_DOCUMENTS, GENERATE, GENERATE>>
    /\ Len(retrieved) = 2

\* where the results of the i-th index start in the concatenation
RECURSIVE Offset(_)
Offset(i) == IF i = 1 THEN 0 ELSE Offset(i - 1) + Len(indexResults[i - 1].documents)

\* C11: retrieve asks every registered index with the query and returns the
\* results concatenated: in registration order across indexes, in each
\* index's own order within it, and with nothing removed, so a passage two
\* indexes return appears twice.
C11_Concatenation ==
    (pc = GRADE_DOCUMENTS) =>
        /\ DOMAIN indexResults = DOMAIN registry
        /\ {registry[i] : i \in DOMAIN registry} = DOMAIN retrievers
        /\ Len(state.documents) = Offset(Len(indexResults) + 1)
        /\ \A i \in DOMAIN indexResults :
              /\ indexResults[i].collection = registry[i]
              /\ indexResults[i].query = state.question
              /\ \A p \in DOMAIN indexResults[i].documents :
                    state.documents[Offset(i) + p] = indexResults[i].documents[p]
C11_Witness ==
    /\ pc = GRADE_DOCUMENTS
    /\ Len(indexResults) = 2
    /\ indexResults[1].documents = <<"p2", "p1">>
    /\ indexResults[2].documents = <<"p1">>
    /\ state.documents = <<"p2", "p1", "p1">>

NonEmptyRows == {r \in DOMAIN df : \E c \in DOMAIN Columns : ~df[r][c].nan}
ColumnIndex(col) == CHOOSE c \in DOMAIN Columns : Columns[c] = col

\* C17: every row of the CSV that is not entirely empty becomes exactly one
\* passage, in row order, with metadata source = the file and row = the
\* row's index; only the values of the columns data and input are cleaned of
\* URL fragments, the values of the other columns are kept as they are.
C17_RowsToPassages ==
    (ipc = "csv_done") =>
        /\ Len(docs) = Cardinality(NonEmptyRows)
        /\ \A r \in NonEmptyRows :
              LET d == docs[Cardinality({x \in NonEmptyRows : x <= r})]
              IN /\ d.metadata = [source |-> csv_config[1].csv_file, row |-> r - 1]
                 /\ \A e \in DOMAIN d.page_content :
                       LET part == d.page_content[e]
                           cell == df[r][ColumnIndex(part.column)]
                       IN IF part.column \in {"data", "input"}
                          THEN /\ cell = TextCell(UrlText) => part.text = <<"hello", "world">>
                               /\ cell = TextCell(PlainText) => part.text = PlainText
                          ELSE part.text = (IF cell.nan THEN <<"nan">> ELSE cell.text)
C17_Witness ==
    /\ ipc = "csv_done"
    /\ Len(df) = 2
    /\ \A c \in DOMAIN Columns : df[1][c].nan
    /\ df[2] = <<TextCell(UrlText), TextCell(UrlText), NaN>>
    /\ Len(docs) = 1
    /\ docs[1].metadata.row = 1
    /\ docs[1].page_content =
          <<[column |-> "id", text |-> UrlText],
            [column |-> "data", text |-> <<"hello", "world">>]>>

\* C16: with requests handled in any interleaving, each run works on its
\* own state: its question is the one it was asked, its answer comes from its
\* own generator call, its response from its own state, FILTER keeps passages
\* of its own retrieval only, and a step of one request changes no other run.
C16_RunsIsolated ==
    /\ [](\A r \in Requests :
            LET run == runs[r]
            IN run.pc # IDLE =>
                /\ "question" \in DOMAIN run.state /\ run.state.question = run.q0
                /\ "generation" \in DOMAIN run.state <=> run.lastGen # ""
                /\ run.lastGen # "" => run.state.generation = run.lastGen
                /\ run.steps <= RECURSION_LIMIT
                /\ run.response # NoResponse =>
                      run.response =
                          (IF run.pc = FAILED
                           THEN [status |-> 500, body |-> ERROR_DETAIL]
                           ELSE [status |-> 200,
                                 body |-> IF run.lastGen # "" THEN run.lastGen ELSE "N/A"]))
    /\ [][\A r \in Requests :
            runs'[r] # runs[r] =>
                /\ \A o \in Requests \ {r} : runs'[o] = runs[o]
                /\ (runs[r].pc = GRADE_DOCUMENTS /\ runs'[r].pc # FAILED) =>
                      IsSubsequence(runs'[r].state.documents, runs[r].state.documents)]_vars
C16_Witness ==
    /\ runs["r1"].pc = GENERATE /\ runs["r1"].steps = RECURSION_LIMIT - 1
    /\ runs["r1"].lastGen = "A1"
    /\ runs["r1"].response = NoResponse
    /\ runs["r2"].pc = END /\ runs["r2"].response = [status |-> 200, body |-> "A2"]
    /\ runs["r1"].q0 # runs["r2"].q0
    /\ runs["r1"].state.documents # runs["r2"].state.documents
====
